---- MODULE Spec2Model ----
(***************************************************************************)
(* PaperArch: the workflow state machine of the three App components of    *)
(* the repository (src/types.ts, the cancellable workflow; src/App.tsx;    *)
(* src/unnamed/part_000) over the AI gateway of                            *)
(* src/services/geminiService.ts.                                          *)
(*                                                                         *)
(* A state is the React state of the mounted component, the               *)
(* AbortController reference, and the gateway exchanges still awaiting     *)
(* their response, each with the values its handler closed over when it    *)
(* was invoked.  One action per DOM event handler (guarded by the JSX      *)
(* conditions that render and enable the element) and one for the          *)
(* continuation of an awaited gateway call.                                *)
(***************************************************************************)
EXTENDS Integers, Sequences, FiniteSets, TLC

\* ------------------------------------------------------------------ bounds
\* Gateway calls issued during one session.
MaxCalls == 4
\* Inline image payloads the backend returns.
Payloads == {"p1", "p2"}
\* architectureBlueprint texts the backend returns.
Blueprints == {"B1", "B2"}
\* Texts typed into the refinement input.
Drafts == {"", "wider"}
\* Texts typed into the textarea of src/App.tsx, whose button trims them.
Drafts_App == Drafts \cup {" "}
\* Conference buttons exercised (members of the ConferenceType enum).
Venues == {"ACL", "EMNLP"}
\* The longest list of parts of an image response in the gateway's contract.
MaxParts == 2

\* ------------------------------------------------------------ domain data
\* AppStep
SETUP == 0
UNDERSTANDING == 1
GENERATION == 2
REFINEMENT == 3
AppStep == {SETUP, UNDERSTANDING, GENERATION, REFINEMENT}

\* ConferenceType
ConferenceType == {"ACL", "EMNLP", "KDD", "ICML", "NeurIPS", "CVPR", "ICCV", "AAAI"}

\* null / undefined, and a present value: optional values are sequences of
\* length at most one so that every comparison is between sequences.
Null == <<>>
Some(x) == <<x>>

\* PaperAnalysis objects are functions from field names to values, so that an
\* object may lack fields.
PaperAnalysis(blueprint) ==
    [title |-> "T", summary |-> "S", layoutStrategy |-> "Linear Pipeline",
     architectureBlueprint |-> blueprint, keyComponents |-> <<"Encoder", "Decoder">>]
EmptyObject == [f \in {} |-> ""]
Undefined == "undefined"
Field(obj, f) == IF f \in DOMAIN obj THEN obj[f] ELSE Undefined

\* `data:image/png;base64,${data}`
DataUrl(data) == [scheme |-> "data:image/png;base64", data |-> data]
\* currentImageUrl.split(',')[1]
Base64Of(url) == url.data

HistoryItem(prompt, imageUrl, timestamp) ==
    [prompt |-> prompt, imageUrl |-> imageUrl, timestamp |-> timestamp]

\* JavaScript truthiness of string | null (the value is boxed) and object | null.
TruthyString(s) == s # Null /\ s[1] # ""
TruthyObject(o) == o # Null

\* err.message || fallback
MessageOr(message, fallback) == IF message # "" THEN message ELSE fallback

\* The three App components of the repository.
Variants == {"types", "App", "part_000"}

\* ------------------------------------------------------------- AI gateway
\* What a gateway function does: it returns a value or throws an error.
Return(v) == [ok |-> TRUE, value |-> Some(v), name |-> "", message |-> ""]
Throw(name, message) == [ok |-> FALSE, value |-> Null, name |-> name, message |-> message]

\* The backend's answers.  A request is rejected (network or API error, or the
\* FileReader failing before the request: an error event without a message), or
\* it is answered.
Rejected(message) == [rejected |-> TRUE, message |-> message, text |-> Null, candidates |-> Null]
\* response.text of the analysis call
JsonText(v) == [wellFormed |-> TRUE, value |-> v]
MalformedText == [wellFormed |-> FALSE, value |-> EmptyObject]
TextResponse(text) == [rejected |-> FALSE, message |-> "", text |-> text, candidates |-> Null]
AnalysisResponses ==
    {Rejected(""), TextResponse(Null), TextResponse(Some(MalformedText))}
    \cup {TextResponse(Some(JsonText(PaperAnalysis(b)))) : b \in Blueprints}
\* response.candidates[0].content.parts of an image call
TextPart == [inlineData |-> Null]
InlinePart(data) == [inlineData |-> Some([data |-> data, mimeType |-> "image/png"])]
PartsResponse(parts) == [rejected |-> FALSE, message |-> "", text |-> Null, candidates |-> parts]
ImageResponses ==
    {Rejected("503 Service Unavailable"), PartsResponse(Some(<<TextPart>>))}
    \cup {PartsResponse(Some(<<TextPart, InlinePart(p)>>)) : p \in Payloads}

\* JSON.parse
JSONparse(text) ==
    IF text.wellFormed THEN Return(text.value)
    ELSE Throw("SyntaxError", "Unexpected end of JSON input")

analyzePaper(response) ==
    IF response.rejected THEN Throw("Error", response.message)
    ELSE LET text == IF response.text # Null THEN response.text[1] ELSE JsonText(EmptyObject)
         IN  JSONparse(text)

\* parts.find(p => p.inlineData)
RECURSIVE FindInline(_)
FindInline(parts) ==
    IF parts = <<>> THEN Null
    ELSE IF Head(parts).inlineData # Null THEN Some(Head(parts))
    ELSE FindInline(Tail(parts))

\* response.candidates?.[0]?.content?.parts.find(p => p.inlineData)
FirstInlinePart(response) ==
    IF response.candidates = Null THEN Null ELSE FindInline(response.candidates[1])

generateDiagram(response) ==
    IF response.rejected THEN Throw("Error", response.message)
    ELSE LET part == FirstInlinePart(response)
         IN  IF part # Null /\ part[1].inlineData[1].data # ""
             THEN Return(DataUrl(part[1].inlineData[1].data))
             ELSE Throw("Error", "Failed to generate image data from Nano Banana.")

refineDiagram(response) ==
    IF response.rejected THEN Throw("Error", response.message)
    ELSE LET part == FirstInlinePart(response)
         IN  IF part # Null /\ part[1].inlineData[1].data # ""
             THEN Return(DataUrl(part[1].inlineData[1].data))
             ELSE Throw("Error", "Failed to refine diagram.")

\* --------------------------------------------------------------- the state
VARIABLES
    variant,            \* which App component is mounted
    state,              \* the component's React state
    abortControllerRef, \* abortControllerRef.current: 0 is null, else the controller's id
    inflight,           \* gateway exchanges awaiting their response
    calls,              \* gateway calls issued so far
    now                 \* the last value Date.now() returned

vars == <<variant, state, abortControllerRef, inflight, calls, now>>

\* useState({...}) of src/types.ts and src/unnamed/part_000; the eight useState
\* hooks of src/App.tsx hold the same fields.
InitialState ==
    [step |-> SETUP, loading |-> FALSE, error |-> Null, conference |-> "ACL",
     analysis |-> Null, currentImage |-> Null, history |-> <<>>, refinementInput |-> ""]

\* setState(prev => ({ ...prev, ...diff }))
updateState(prev, diff) == diff @@ prev

\* The fields of `state` a handler reads after its await: they are those of the
\* render in which it was invoked.  Only handleRefine reads any.
Closure(kind, s) ==
    IF kind = "refine"
    THEN [refinementInput |-> s.refinementInput, history |-> s.history]
    ELSE [refinementInput |-> "", history |-> <<>>]

\* A gateway exchange: the call's number (also the id of the AbortController
\* created for it), its kind, its controller's signal ("active", or aborted by
\* "cancel" or by "reset") and the invoking handler's closure.
Exchange(kind) ==
    [id |-> calls + 1, kind |-> kind, signal |-> "active", closure |-> Closure(kind, state)]

\* abortControllerRef.current.abort()
Abort(exchanges, controller, by) ==
    {IF x.id = controller THEN [x EXCEPT !.signal = by] ELSE x : x \in exchanges}

\* Date.now(): the readings are those of successive responses, each later than
\* the one before.
DateNow == now + 1

TypeOK ==
    /\ variant \in Variants
    /\ state.step \in AppStep
    /\ state.loading \in BOOLEAN
    /\ state.conference \in ConferenceType
    /\ state.refinementInput \in Drafts_App
    /\ Len(state.error) <= 1 /\ Len(state.analysis) <= 1 /\ Len(state.currentImage) <= 1
    /\ abortControllerRef \in 0..MaxCalls
    /\ calls \in 0..MaxCalls
    /\ \A x \in inflight : x.id \in 1..calls

Mounted(v) ==
    /\ variant = v
    /\ state = InitialState
    /\ abortControllerRef = 0
    /\ inflight = {}
    /\ calls = 0
    /\ now = 0

\* A handler returns before doing anything.
Rejects == UNCHANGED vars

\* ===================================================== src/types.ts: App
\* The image panel of steps 2 and 3 is rendered.
ImagePanel == state.step \in {GENERATION, REFINEMENT} /\ state.currentImage # Null

\* canNavigateTo testing SETUP before the loading flag.
canNavigateTo_SetupWhileLoading(target) ==
    IF target = SETUP THEN TRUE
    ELSE IF state.loading THEN FALSE
    ELSE IF target = UNDERSTANDING THEN TruthyObject(state.analysis)
    ELSE IF target = GENERATION THEN state.currentImage # Null
    ELSE IF target = REFINEMENT THEN Len(state.history) > 0
    ELSE FALSE

\* canNavigateTo without the analysis check of UNDERSTANDING.
canNavigateTo_NoAnalysisCheck(target) ==
    IF state.loading THEN FALSE
    ELSE IF target = SETUP THEN TRUE
    ELSE IF target = UNDERSTANDING THEN TRUE
    ELSE IF target = GENERATION THEN state.currentImage # Null
    ELSE IF target = REFINEMENT THEN Len(state.history) > 0
    ELSE FALSE

\* canNavigateTo without the image check of GENERATION.
canNavigateTo_NoImageCheck(target) ==
    IF state.loading THEN FALSE
    ELSE IF target = SETUP THEN TRUE
    ELSE IF target = UNDERSTANDING THEN TruthyObject(state.analysis)
    ELSE IF target = GENERATION THEN TRUE
    ELSE IF target = REFINEMENT THEN Len(state.history) > 0
    ELSE FALSE

canNavigateTo(target) ==
    IF state.loading THEN FALSE
    ELSE IF target = SETUP THEN TRUE
    ELSE IF target = UNDERSTANDING THEN TruthyObject(state.analysis)
    ELSE IF target = GENERATION THEN state.currentImage # Null
    ELSE IF target = REFINEMENT THEN Len(state.history) > 0
    ELSE FALSE

\* A stop that clears the loading flag without a message.
Stopped_Silent(s) == updateState(s, [loading |-> FALSE])

\* updateState({ loading: false, error: 'Operation stopped by user.' })
Stopped(s) == updateState(s, [loading |-> FALSE, error |-> Some("Operation stopped by user.")])

\* One of the four stop buttons, each rendered while state.loading.
handleStop ==
    /\ variant = "types"
    /\ state.loading
    /\ \/ state.step = SETUP
       \/ state.step = UNDERSTANDING /\ TruthyObject(state.analysis)
       \/ ImagePanel
    /\ inflight' = Abort(inflight, abortControllerRef, "cancel")
    /\ abortControllerRef' = 0
    /\ state' = Stopped(state)
    /\ UNCHANGED <<variant, calls, now>>

\* A reset that, like that of src/App.tsx, leaves the draft and the venue.
Reset_KeepsDraft(s) ==
    updateState(s, [step |-> SETUP, loading |-> FALSE, error |-> Null, analysis |-> Null,
                    currentImage |-> Null, history |-> <<>>])

\* setState({...}) of onReset: the state object is replaced.
Reset(s) ==
    [step |-> SETUP, loading |-> FALSE, error |-> Null, conference |-> "ACL",
     analysis |-> Null, currentImage |-> Null, history |-> <<>>, refinementInput |-> ""]

\* The header's logo and Reset button: handleStop() and then setState({...}).
onReset ==
    /\ variant = "types"
    /\ inflight' = Abort(inflight, abortControllerRef, "reset")
    /\ abortControllerRef' = 0
    /\ state' = Reset(Stopped(state))
    /\ UNCHANGED <<variant, calls, now>>

\* StepIndicator: onClick={() => available && onNavigate(s.id)}
onNavigate(s) ==
    /\ variant = "types"
    /\ canNavigateTo(s)
    /\ state' = updateState(state, [step |-> s])
    /\ UNCHANGED <<variant, abortControllerRef, inflight, calls, now>>

\* The error banner's close button.
dismissError ==
    /\ variant = "types"
    /\ TruthyString(state.error)
    /\ state' = updateState(state, [error |-> Null])
    /\ UNCHANGED <<variant, abortControllerRef, inflight, calls, now>>

\* The venue buttons of step 0 (not disabled while loading).
setConference(c) ==
    /\ variant = "types"
    /\ state.step = SETUP
    /\ state' = updateState(state, [conference |-> c])
    /\ UNCHANGED <<variant, abortControllerRef, inflight, calls, now>>

\* The refinement input's onChange (the input is disabled while loading).
setRefinementInput(text) ==
    /\ variant = "types"
    /\ ImagePanel /\ ~state.loading
    /\ state' = updateState(state, [refinementInput |-> text])
    /\ UNCHANGED <<variant, abortControllerRef, inflight, calls, now>>

\* A history thumbnail (the first five entries, disabled while loading).
selectHistory(i) ==
    /\ variant = "types"
    /\ ImagePanel /\ ~state.loading
    /\ i \in 1..Len(state.history) /\ i <= 5
    /\ state' = updateState(state, [currentImage |-> Some(state.history[i].imageUrl),
                                    step |-> REFINEMENT])
    /\ UNCHANGED <<variant, abortControllerRef, inflight, calls, now>>

\* The handler prologue without error: null.
Awaits_KeepsError(kind) ==
    /\ calls < MaxCalls
    /\ abortControllerRef' = calls + 1
    /\ state' = updateState(state, [loading |-> TRUE])
    /\ inflight' = inflight \cup {Exchange(kind)}
    /\ calls' = calls + 1
    /\ UNCHANGED <<variant, now>>

\* A handler creates its AbortController, sets loading and awaits the gateway.
Awaits(kind) ==
    /\ calls < MaxCalls
    /\ abortControllerRef' = calls + 1
    /\ state' = updateState(state, [loading |-> TRUE, error |-> Null])
    /\ inflight' = inflight \cup {Exchange(kind)}
    /\ calls' = calls + 1
    /\ UNCHANGED <<variant, now>>

\* The file input of step 0 (disabled while loading); the dialog may be closed
\* without a file.
handleFileUpload(file) ==
    /\ variant = "types"
    /\ state.step = SETUP /\ ~state.loading
    /\ IF file = Null THEN Rejects ELSE Awaits("analyze")

\* The Neural Draw button of step 1 (replaced by a stop button while loading).
handleGenerate ==
    /\ variant = "types"
    /\ state.step = UNDERSTANDING /\ TruthyObject(state.analysis) /\ ~state.loading
    /\ IF ~TruthyObject(state.analysis) THEN Rejects ELSE Awaits("generate")

\* The guard without its check of the draft.
RefineGuard_NoDraftCheck(s) == s.currentImage # Null /\ TruthyObject(s.analysis)

\* if (!state.currentImage || !state.analysis || !state.refinementInput) return;
RefineGuard(s) ==
    s.currentImage # Null /\ TruthyObject(s.analysis) /\ s.refinementInput # ""

\* Enter in the refinement input (disabled while loading), or the Apply Logic
\* button (disabled without a draft, replaced by a stop button while loading).
handleRefine ==
    /\ variant = "types"
    /\ ImagePanel /\ ~state.loading
    /\ IF ~RefineGuard(state) THEN Rejects ELSE Awaits("refine")

\* The catch block without its fallback message.
Caught_NoFallback(s, r, fallback) ==
    IF r.name = "AbortError" THEN s
    ELSE updateState(s, [error |-> Some(r.message)])

\* catch (err) { if (err.name === 'AbortError') return; updateState({ error: ... }) }
Caught(s, r, fallback) ==
    IF r.name = "AbortError" THEN s
    ELSE updateState(s, [error |-> Some(MessageOr(r.message, fallback))])

\* A finally block that leaves the loading flag.
Finally_StillLoading(s) == s

\* finally { updateState({ loading: false }); ... }
Finally(s) == updateState(s, [loading |-> FALSE])

\* handleFileUpload after its await: r is what analyzePaper returned or threw,
\* ref is abortControllerRef.current.
AfterAnalyze(s, ref, x, r) ==
    Finally(IF r.ok
            THEN IF ref = 0 THEN s
                 ELSE updateState(s, [analysis |-> r.value, step |-> UNDERSTANDING])
            ELSE Caught(s, r, "Analysis failed."))

\* handleGenerate storing the image without seeding the history.
AfterGenerate_NoSeed(s, ref, x, r, t) ==
    Finally(IF r.ok
            THEN IF ref = 0 THEN s
                 ELSE updateState(s, [currentImage |-> r.value, step |-> GENERATION])
            ELSE Caught(s, r, "Rendering failed."))

\* handleGenerate after its await; t is Date.now().
AfterGenerate(s, ref, x, r, t) ==
    Finally(IF r.ok
            THEN IF ref = 0 THEN s
                 ELSE updateState(s, [currentImage |-> r.value, step |-> GENERATION,
                                      history |-> <<HistoryItem("Initial", r.value[1], t)>>])
            ELSE Caught(s, r, "Rendering failed."))

\* handleRefine showing the new image without recording it in the history.
AfterRefine_Unrecorded(s, ref, x, r, t) ==
    Finally(IF r.ok
            THEN IF ref = 0 THEN s
                 ELSE updateState(s, [currentImage |-> r.value,
                                      refinementInput |-> "",
                                      step |-> REFINEMENT])
            ELSE Caught(s, r, "Refinement failed."))

\* handleRefine appending the new entry instead of prepending it.
AfterRefine_Appends(s, ref, x, r, t) ==
    Finally(IF r.ok
            THEN IF ref = 0 THEN s
                 ELSE updateState(s, [currentImage |-> r.value,
                                      history |-> x.closure.history \o
                                                  <<HistoryItem(x.closure.refinementInput, r.value[1], t)>>,
                                      refinementInput |-> "",
                                      step |-> REFINEMENT])
            ELSE Caught(s, r, "Refinement failed."))

\* handleRefine after its await: state.refinementInput and state.history are
\* those of the render in which the handler was invoked.
AfterRefine(s, ref, x, r, t) ==
    Finally(IF r.ok
            THEN IF ref = 0 THEN s
                 ELSE updateState(s, [currentImage |-> r.value,
                                      history |-> <<HistoryItem(x.closure.refinementInput, r.value[1], t)>>
                                                  \o x.closure.history,
                                      refinementInput |-> "",
                                      step |-> REFINEMENT])
            ELSE Caught(s, r, "Refinement failed."))

\* Whether the continuation applies the result (and reads Date.now()).
Applies(r, ref) == r.ok /\ ref # 0

\* The continuation of handleFileUpload: the gateway call of exchange x settles.
handleFileUpload_resume(x, response) ==
    /\ variant = "types"
    /\ x.kind = "analyze"
    /\ state' = AfterAnalyze(state, abortControllerRef, x, analyzePaper(response))
    /\ inflight' = inflight \ {x}
    /\ abortControllerRef' = 0
    /\ UNCHANGED <<variant, calls, now>>

handleGenerate_resume(x, response) ==
    /\ variant = "types"
    /\ x.kind = "generate"
    /\ state' = AfterGenerate(state, abortControllerRef, x, generateDiagram(response), DateNow)
    /\ now' = IF Applies(generateDiagram(response), abortControllerRef) THEN DateNow ELSE now
    /\ inflight' = inflight \ {x}
    /\ abortControllerRef' = 0
    /\ UNCHANGED <<variant, calls>>

handleRefine_resume(x, response) ==
    /\ variant = "types"
    /\ x.kind = "refine"
    /\ state' = AfterRefine(state, abortControllerRef, x, refineDiagram(response), DateNow)
    /\ now' = IF Applies(refineDiagram(response), abortControllerRef) THEN DateNow ELSE now
    /\ inflight' = inflight \ {x}
    /\ abortControllerRef' = 0
    /\ UNCHANGED <<variant, calls>>

Files == {Null, Some("paper.pdf")}

Next ==
    \/ handleStop
    \/ onReset
    \/ \E s \in AppStep : onNavigate(s)
    \/ dismissError
    \/ \E c \in Venues : setConference(c)
    \/ \E text \in Drafts : setRefinementInput(text)
    \/ \E i \in 1..Len(state.history) : selectHistory(i)
    \/ \E file \in Files : handleFileUpload(file)
    \/ handleGenerate
    \/ handleRefine
    \/ \E x \in inflight : \E response \in AnalysisResponses : handleFileUpload_resume(x, response)
    \/ \E x \in inflight : \E response \in ImageResponses : handleGenerate_resume(x, response)
    \/ \E x \in inflight : \E response \in ImageResponses : handleRefine_resume(x, response)

Init == Mounted("types")

\* The cancellable workflow of src/types.ts.
Spec == Init /\ [][Next]_vars

\* ====================================================== src/App.tsx: App
ImagePanel_App == state.step \in {GENERATION, REFINEMENT} /\ state.currentImage # Null

canNavigateTo_App(targetStep) ==
    IF state.loading THEN FALSE
    ELSE IF targetStep = SETUP THEN TRUE
    ELSE IF targetStep = UNDERSTANDING THEN TruthyObject(state.analysis)
    ELSE IF targetStep = GENERATION THEN state.currentImage # Null
    ELSE IF targetStep = REFINEMENT THEN state.currentImage # Null /\ Len(state.history) > 0
    ELSE FALSE

\* StepIndicator: onClick={() => isAccessible && onStepClick(s.id)}
handleStepClick(targetStep) ==
    /\ variant = "App"
    /\ canNavigateTo_App(targetStep)
    /\ IF canNavigateTo_App(targetStep)
       THEN state' = updateState(state, [step |-> targetStep, error |-> Null])
       ELSE UNCHANGED state
    /\ UNCHANGED <<variant, abortControllerRef, inflight, calls, now>>

\* reset without setHistory([]).
Reset_App_KeepsHistory(s) ==
    updateState(s, [step |-> SETUP, analysis |-> Null, currentImage |-> Null,
                    error |-> Null])

\* setStep(SETUP); setAnalysis(null); setCurrentImage(null); setHistory([]); setError(null)
Reset_App(s) ==
    updateState(s, [step |-> SETUP, analysis |-> Null, currentImage |-> Null,
                    history |-> <<>>, error |-> Null])

\* The header's logo and Reset button.
reset ==
    /\ variant = "App"
    /\ state' = Reset_App(state)
    /\ UNCHANGED <<variant, abortControllerRef, inflight, calls, now>>

\* The error banner's close button.
dismissError_App ==
    /\ variant = "App"
    /\ TruthyString(state.error)
    /\ state' = updateState(state, [error |-> Null])
    /\ UNCHANGED <<variant, abortControllerRef, inflight, calls, now>>

\* The venue buttons of step 0.
setConference_App(type) ==
    /\ variant = "App"
    /\ state.step = SETUP
    /\ state' = updateState(state, [conference |-> type])
    /\ UNCHANGED <<variant, abortControllerRef, inflight, calls, now>>

\* The refinement textarea's onChange (disabled while loading).
setRefinementInput_App(text) ==
    /\ variant = "App"
    /\ ImagePanel_App /\ ~state.loading
    /\ state' = updateState(state, [refinementInput |-> text])
    /\ UNCHANGED <<variant, abortControllerRef, inflight, calls, now>>

\* A thumbnail of the history tracker, rendered when history.length > 1.
setCurrentImage_App(i) ==
    /\ variant = "App"
    /\ ImagePanel_App /\ Len(state.history) > 1
    /\ i \in 1..Len(state.history)
    /\ state' = updateState(state, [currentImage |-> Some(state.history[i].imageUrl)])
    /\ UNCHANGED <<variant, abortControllerRef, inflight, calls, now>>

\* handleRefine of src/App.tsx reads refinementInput after its await; history
\* is read through setHistory's updater.
Closure_App(kind, s) ==
    IF kind = "refine"
    THEN [refinementInput |-> s.refinementInput, history |-> <<>>]
    ELSE [refinementInput |-> "", history |-> <<>>]

\* setLoading(true); setError(null); and the gateway call is awaited.
Awaits_App(kind) ==
    /\ calls < MaxCalls
    /\ state' = updateState(state, [loading |-> TRUE, error |-> Null])
    /\ inflight' = inflight \cup {[id |-> calls + 1, kind |-> kind, signal |-> "active",
                                   closure |-> Closure_App(kind, state)]}
    /\ calls' = calls + 1
    /\ UNCHANGED <<variant, abortControllerRef, now>>

\* The file input of step 0 (disabled while loading).
handleFileUpload_App(file) ==
    /\ variant = "App"
    /\ state.step = SETUP /\ ~state.loading
    /\ IF file = Null THEN Rejects ELSE Awaits_App("analyze")

\* The generate button of step 1 (disabled while loading).
handleGenerate_App ==
    /\ variant = "App"
    /\ state.step = UNDERSTANDING /\ TruthyObject(state.analysis) /\ ~state.loading
    /\ IF ~TruthyObject(state.analysis) THEN Rejects ELSE Awaits_App("generate")

\* String.prototype.trim on the texts typed.
Trim(text) == IF text = " " THEN "" ELSE text

\* if (!currentImage || !refinementInput || !analysis) return;
RefineGuard_App(s) ==
    s.currentImage # Null /\ s.refinementInput # "" /\ TruthyObject(s.analysis)

\* The Refine button (disabled while loading or without a trimmed draft).
handleRefine_App ==
    /\ variant = "App"
    /\ ImagePanel_App /\ ~state.loading /\ Trim(state.refinementInput) # ""
    /\ IF ~RefineGuard_App(state) THEN Rejects ELSE Awaits_App("refine")

AfterAnalyze_App(s, x, r) ==
    updateState(IF r.ok
                THEN updateState(s, [analysis |-> r.value, step |-> UNDERSTANDING])
                ELSE updateState(s, [error |-> Some(MessageOr(r.message, "Failed to analyze paper."))]),
                [loading |-> FALSE])

AfterGenerate_App(s, x, r, t) ==
    updateState(IF r.ok
                THEN updateState(s, [currentImage |-> r.value,
                                     history |-> <<HistoryItem("Initial Generation", r.value[1], t)>>,
                                     step |-> GENERATION])
                ELSE updateState(s, [error |-> Some(MessageOr(r.message, "Failed to generate diagram."))]),
                [loading |-> FALSE])

\* setHistory(prev => [{ prompt: refinementInput, ... }, ...prev])
AfterRefine_App(s, x, r, t) ==
    updateState(IF r.ok
                THEN updateState(s, [currentImage |-> r.value,
                                     history |-> <<HistoryItem(x.closure.refinementInput, r.value[1], t)>>
                                                 \o s.history,
                                     refinementInput |-> "",
                                     step |-> REFINEMENT])
                ELSE updateState(s, [error |-> Some(MessageOr(r.message, "Failed to refine diagram."))]),
                [loading |-> FALSE])

handleFileUpload_App_resume(x, response) ==
    /\ variant = "App"
    /\ x.kind = "analyze"
    /\ state' = AfterAnalyze_App(state, x, analyzePaper(response))
    /\ inflight' = inflight \ {x}
    /\ UNCHANGED <<variant, abortControllerRef, calls, now>>

handleGenerate_App_resume(x, response) ==
    /\ variant = "App"
    /\ x.kind = "generate"
    /\ state' = AfterGenerate_App(state, x, generateDiagram(response), DateNow)
    /\ now' = IF generateDiagram(response).ok THEN DateNow ELSE now
    /\ inflight' = inflight \ {x}
    /\ UNCHANGED <<variant, abortControllerRef, calls>>

handleRefine_App_resume(x, response) ==
    /\ variant = "App"
    /\ x.kind = "refine"
    /\ state' = AfterRefine_App(state, x, refineDiagram(response), DateNow)
    /\ now' = IF refineDiagram(response).ok THEN DateNow ELSE now
    /\ inflight' = inflight \ {x}
    /\ UNCHANGED <<variant, abortControllerRef, calls>>

Next_App ==
    \/ reset
    \/ \E s \in AppStep : handleStepClick(s)
    \/ dismissError_App
    \/ \E c \in Venues : setConference_App(c)
    \/ \E text \in Drafts_App : setRefinementInput_App(text)
    \/ \E i \in 1..Len(state.history) : setCurrentImage_App(i)
    \/ \E file \in Files : handleFileUpload_App(file)
    \/ handleGenerate_App
    \/ handleRefine_App
    \/ \E x \in inflight : \E response \in AnalysisResponses : handleFileUpload_App_resume(x, response)
    \/ \E x \in inflight : \E response \in ImageResponses : handleGenerate_App_resume(x, response)
    \/ \E x \in inflight : \E response \in ImageResponses : handleRefine_App_resume(x, response)

Init_App == Mounted("App")

\* The workflow of src/App.tsx.
Spec_App == Init_App /\ [][Next_App]_vars

\* ============================================ src/unnamed/part_000: App
ImagePanel_P0 == state.step \in {GENERATION, REFINEMENT} /\ state.currentImage # Null

\* The header's logo and New Project button: setState({...}).
onReset_P0 ==
    /\ variant = "part_000"
    /\ state' = InitialState
    /\ UNCHANGED <<variant, abortControllerRef, inflight, calls, now>>

\* StepIndicator: onClick={() => onNavigate(item.id)}
onNavigate_P0(s) ==
    /\ variant = "part_000"
    /\ state' = updateState(state, [step |-> s])
    /\ UNCHANGED <<variant, abortControllerRef, inflight, calls, now>>

\* The error banner's close button.
dismissError_P0 ==
    /\ variant = "part_000"
    /\ TruthyString(state.error)
    /\ state' = updateState(state, [error |-> Null])
    /\ UNCHANGED <<variant, abortControllerRef, inflight, calls, now>>

\* The venue buttons of step 0.
setConference_P0(c) ==
    /\ variant = "part_000"
    /\ state.step = SETUP
    /\ state' = updateState(state, [conference |-> c])
    /\ UNCHANGED <<variant, abortControllerRef, inflight, calls, now>>

\* The refinement input's onChange (never disabled).
setRefinementInput_P0(text) ==
    /\ variant = "part_000"
    /\ ImagePanel_P0
    /\ state' = updateState(state, [refinementInput |-> text])
    /\ UNCHANGED <<variant, abortControllerRef, inflight, calls, now>>

\* A history thumbnail (the first four entries, never disabled).
selectHistory_P0(i) ==
    /\ variant = "part_000"
    /\ ImagePanel_P0
    /\ i \in 1..Len(state.history) /\ i <= 4
    /\ state' = updateState(state, [currentImage |-> Some(state.history[i].imageUrl)])
    /\ UNCHANGED <<variant, abortControllerRef, inflight, calls, now>>

\* updateState({ loading: true, error: null }) and the gateway call is awaited.
Awaits_P0(kind) ==
    /\ calls < MaxCalls
    /\ state' = updateState(state, [loading |-> TRUE, error |-> Null])
    /\ inflight' = inflight \cup {Exchange(kind)}
    /\ calls' = calls + 1
    /\ UNCHANGED <<variant, abortControllerRef, now>>

\* The file input of step 0 (never disabled).
handleFileUpload_P0(file) ==
    /\ variant = "part_000"
    /\ state.step = SETUP
    /\ IF file = Null THEN Rejects ELSE Awaits_P0("analyze")

\* The Neural Render button of step 1 (disabled while loading).
handleGenerate_P0 ==
    /\ variant = "part_000"
    /\ state.step = UNDERSTANDING /\ TruthyObject(state.analysis) /\ ~state.loading
    /\ IF ~TruthyObject(state.analysis) THEN Rejects ELSE Awaits_P0("generate")

\* Enter in the refinement input (never disabled), or the Apply Logic button
\* (disabled while loading or without a draft).
handleRefine_P0 ==
    /\ variant = "part_000"
    /\ ImagePanel_P0
    /\ IF ~RefineGuard(state) THEN Rejects ELSE Awaits_P0("refine")

\* catch (err) { updateState({ error: err.message }) }: an error without a
\* message leaves error undefined.
Caught_P0(s, r) ==
    updateState(s, [error |-> IF r.message = "" THEN Null ELSE Some(r.message)])

AfterAnalyze_P0(s, x, r) ==
    Finally(IF r.ok
            THEN updateState(s, [analysis |-> r.value, step |-> UNDERSTANDING])
            ELSE Caught_P0(s, r))

AfterGenerate_P0(s, x, r, t) ==
    Finally(IF r.ok
            THEN updateState(s, [currentImage |-> r.value, step |-> GENERATION,
                                 history |-> <<HistoryItem("Initial", r.value[1], t)>>])
            ELSE Caught_P0(s, r))

AfterRefine_P0(s, x, r, t) ==
    Finally(IF r.ok
            THEN updateState(s, [currentImage |-> r.value,
                                 history |-> <<HistoryItem(x.closure.refinementInput, r.value[1], t)>>
                                             \o x.closure.history,
                                 refinementInput |-> ""])
            ELSE Caught_P0(s, r))

handleFileUpload_P0_resume(x, response) ==
    /\ variant = "part_000"
    /\ x.kind = "analyze"
    /\ state' = AfterAnalyze_P0(state, x, analyzePaper(response))
    /\ inflight' = inflight \ {x}
    /\ UNCHANGED <<variant, abortControllerRef, calls, now>>

handleGenerate_P0_resume(x, response) ==
    /\ variant = "part_000"
    /\ x.kind = "generate"
    /\ state' = AfterGenerate_P0(state, x, generateDiagram(response), DateNow)
    /\ now' = IF generateDiagram(response).ok THEN DateNow ELSE now
    /\ inflight' = inflight \ {x}
    /\ UNCHANGED <<variant, abortControllerRef, calls>>

handleRefine_P0_resume(x, response) ==
    /\ variant = "part_000"
    /\ x.kind = "refine"
    /\ state' = AfterRefine_P0(state, x, refineDiagram(response), DateNow)
    /\ now' = IF refineDiagram(response).ok THEN DateNow ELSE now
    /\ inflight' = inflight \ {x}
    /\ UNCHANGED <<variant, abortControllerRef, calls>>

Next_P0 ==
    \/ onReset_P0
    \/ \E s \in AppStep : onNavigate_P0(s)
    \/ dismissError_P0
    \/ \E c \in Venues : setConference_P0(c)
    \/ \E text \in Drafts : setRefinementInput_P0(text)
    \/ \E i \in 1..Len(state.history) : selectHistory_P0(i)
    \/ \E file \in Files : handleFileUpload_P0(file)
    \/ handleGenerate_P0
    \/ handleRefine_P0
    \/ \E x \in inflight : \E response \in AnalysisResponses : handleFileUpload_P0_resume(x, response)
    \/ \E x \in inflight : \E response \in ImageResponses : handleGenerate_P0_resume(x, response)
    \/ \E x \in inflight : \E response \in ImageResponses : handleRefine_P0_resume(x, response)

Init_P0 == Mounted("part_000")

\* The workflow of src/unnamed/part_000.
Spec_P0 == Init_P0 /\ [][Next_P0]_vars

\* ======================================================= specifications
\* The workflows of src/types.ts and of src/App.tsx, either one mounted.
Init_Both == Init \/ Init_App
Next_Both == Next \/ Next_App
Spec_Both == Init_Both /\ [][Next_Both]_vars

\* The same two workflows in sessions without cancel and reset.
Next_Uninterrupted ==
    \/ \E s \in AppStep : onNavigate(s)
    \/ dismissError
    \/ \E c \in Venues : setConference(c)
    \/ \E text \in Drafts : setRefinementInput(text)
    \/ \E i \in 1..Len(state.history) : selectHistory(i)
    \/ \E file \in Files : handleFileUpload(file)
    \/ handleGenerate
    \/ handleRefine
    \/ \E x \in inflight : \E response \in AnalysisResponses : handleFileUpload_resume(x, response)
    \/ \E x \in inflight : \E response \in ImageResponses : handleGenerate_resume(x, response)
    \/ \E x \in inflight : \E response \in ImageResponses : handleRefine_resume(x, response)
    \/ \E s \in AppStep : handleStepClick(s)
    \/ dismissError_App
    \/ \E c \in Venues : setConference_App(c)
    \/ \E text \in Drafts_App : setRefinementInput_App(text)
    \/ \E i \in 1..Len(state.history) : setCurrentImage_App(i)
    \/ \E file \in Files : handleFileUpload_App(file)
    \/ handleGenerate_App
    \/ handleRefine_App
    \/ \E x \in inflight : \E response \in AnalysisResponses : handleFileUpload_App_resume(x, response)
    \/ \E x \in inflight : \E response \in ImageResponses : handleGenerate_App_resume(x, response)
    \/ \E x \in inflight : \E response \in ImageResponses : handleRefine_App_resume(x, response)
Spec_Uninterrupted == Init_Both /\ [][Next_Uninterrupted]_vars

\* The cancellable workflow from upload to refinement, the image calls
\* answered with any list of at most MaxParts parts.
InlineParts == {InlinePart(data) : data \in Payloads \cup {""}}
PartLists == UNION {[1..n -> {TextPart} \cup InlineParts] : n \in 0..MaxParts}
PartsResponses == {PartsResponse(Null)} \cup {PartsResponse(Some(parts)) : parts \in PartLists}
Next_Parts ==
    \/ \E file \in Files : handleFileUpload(file)
    \/ handleGenerate
    \/ \E text \in Drafts : setRefinementInput(text)
    \/ handleRefine
    \/ \E x \in inflight : \E response \in AnalysisResponses : handleFileUpload_resume(x, response)
    \/ \E x \in inflight : \E response \in PartsResponses : handleGenerate_resume(x, response)
    \/ \E x \in inflight : \E response \in PartsResponses : handleRefine_resume(x, response)
Spec_Parts == Init /\ [][Next_Parts]_vars

\* The cancellable workflow in the studio: the session has analysed an upload
\* (blueprint b) and generated the first diagram (payload p), with nothing
\* outstanding; calls counts the gateway calls issued from there on.
Studio(b, p) ==
    LET x == [id |-> 0, kind |-> "generate", signal |-> "active",
              closure |-> Closure("generate", InitialState)]
        analysed == AfterAnalyze(InitialState, 1, x,
                                 analyzePaper(TextResponse(Some(JsonText(PaperAnalysis(b))))))
    IN  AfterGenerate(analysed, 2, x,
                      generateDiagram(PartsResponse(Some(<<TextPart, InlinePart(p)>>))), 1)
Init_Studio ==
    /\ variant = "types"
    /\ \E b \in Blueprints : \E p \in Payloads : state = Studio(b, p)
    /\ abortControllerRef = 0
    /\ inflight = {}
    /\ calls = 0
    /\ now = 1
Next_Studio ==
    \/ handleStop
    \/ \E text \in Drafts : setRefinementInput(text)
    \/ \E i \in 1..Len(state.history) : selectHistory(i)
    \/ handleRefine
    \/ \E x \in inflight : \E response \in ImageResponses : handleRefine_resume(x, response)
Spec_Studio == Init_Studio /\ [][Next_Studio]_vars

\* ------------------------------------------------- vocabulary of the claims
Responses(x) == IF x.kind = "analyze" THEN AnalysisResponses ELSE ImageResponses

\* What the gateway function of exchange x makes of a response.
Result(x, response) ==
    IF x.kind = "analyze" THEN analyzePaper(response)
    ELSE IF x.kind = "generate" THEN generateDiagram(response)
    ELSE refineDiagram(response)

\* The step is the continuation of exchange x of src/types.ts on this response.
Resume(x, response) ==
    \/ handleFileUpload_resume(x, response)
    \/ handleGenerate_resume(x, response)
    \/ handleRefine_resume(x, response)

\* The session data a response may change.
Data == <<state.step, state.analysis, state.currentImage, state.history,
          state.refinementInput>>

\* ================================================================ claims
\* C1: in the cancellable workflow, whenever the stage is GENERATION or
\* REFINEMENT the current image is present.
C1_ImageWhenRendering ==
    variant = "types" /\ state.step \in {GENERATION, REFINEMENT}
        => state.currentImage # Null

\* C1 witness: the stage is GENERATION with an image although a reset has
\* since emptied the analysis (the result of the earlier exchange arrived
\* while a newer command was loading).
C1_Witness ==
    /\ variant = "types"
    /\ state.step = GENERATION
    /\ state.currentImage # Null
    /\ state.analysis = Null

\* C2: in the cancellable workflow, whenever the stage is UNDERSTANDING,
\* GENERATION or REFINEMENT the analysis is present.
C2_AnalysisWhenPastSetup ==
    variant = "types" /\ state.step \in {UNDERSTANDING, GENERATION, REFINEMENT}
        => state.analysis # Null

\* C3: in the cancellable workflow, history is non-empty exactly when the
\* current image is present.
C3_HistoryIffImage ==
    variant = "types" => (state.history # <<>> <=> state.currentImage # Null)

\* C3 witness: an image with a history of two entries.
C3_Witness ==
    /\ variant = "types"
    /\ state.currentImage # Null
    /\ Len(state.history) = 2

\* C5: in the cancellable workflow, at most one exchange that was neither
\* cancelled nor reset awaits its response.
C5_SingleActiveExchange ==
    variant = "types" => Cardinality({x \in inflight : x.signal = "active"}) <= 1

\* C4: in the cancellable workflow, the successful response of an exchange
\* that cancel() aborted changes none of stage, analysis, currentImage,
\* history and refinementDraft.
C4_CancelledResultDiscarded ==
    [][\A x \in inflight : \A response \in Responses(x) :
        (x.signal = "cancel" /\ inflight' = inflight \ {x}
            /\ Result(x, response).ok /\ Resume(x, response))
            => Data' = Data]_vars

\* C6: an AI command invoked while loading is rejected: no gateway call is
\* issued and no state field changes.
C6_RejectedWhileLoading ==
    [][(state.loading /\ ((\E file \in Files : handleFileUpload_P0(file))
                          \/ handleGenerate_P0 \/ handleRefine_P0))
        => (state' = state /\ inflight' = inflight /\ calls' = calls)]_vars

\* C7: in the cancellable workflow, reset() from any reachable state yields
\* the initial default state.
C7_ResetYieldsDefault ==
    [][onReset => (/\ state'.step = SETUP
                   /\ state'.loading = FALSE
                   /\ state'.error = Null
                   /\ state'.conference = "ACL"
                   /\ state'.analysis = Null
                   /\ state'.currentImage = Null
                   /\ state'.history = <<>>
                   /\ state'.refinementInput = ""
                   /\ state' = InitialState)]_vars

\* C7 witness: the default state right after a reset issued while a command
\* was loading (its exchange is still outstanding).
C7_Witness ==
    /\ variant = "types"
    /\ state = InitialState
    /\ \E x \in inflight : x.signal = "reset"

\* C8: in the cancellable workflow, a gateway failure leaves stage, analysis,
\* currentImage, history, refinementDraft and conference as they were, sets
\* lastError to a non-empty string and isLoading to false; the failure of the
\* generation the workflow is waiting for leaves the stage at UNDERSTANDING.
C8_FailureLeavesData ==
    [][\A x \in inflight : \A response \in Responses(x) :
        (inflight' = inflight \ {x} /\ ~Result(x, response).ok /\ Resume(x, response))
            => /\ Data' = Data
               /\ state'.conference = state.conference
               /\ state'.error # Null /\ state'.error[1] # ""
               /\ state'.loading = FALSE
               /\ (x.kind = "generate" /\ abortControllerRef = x.id
                      => state'.step = UNDERSTANDING)]_vars

\* C8 witness: a failed generation: the stage is still UNDERSTANDING, nothing
\* is loading and the gateway's message is the error.
C8_Witness ==
    /\ variant = "types"
    /\ state.step = UNDERSTANDING
    /\ ~state.loading
    /\ state.error = Some("Failed to generate image data from Nano Banana.")
    /\ state.currentImage = Null
    /\ inflight = {}

\* A history thumbnail is clicked.
SelectStep ==
    \/ \E i \in 1..Len(state.history) : selectHistory(i)
    \/ \E i \in 1..Len(state.history) : setCurrentImage_App(i)

\* The history holds every result applied since the generation, newest first:
\* its timestamps are the clock's last readings, the latest first, and its last
\* entry is the generation's.
NewestFirst ==
    state.history # <<>> =>
        /\ \A i \in 1..Len(state.history) : state.history[i].timestamp = now - (i - 1)
        /\ state.history[Len(state.history)].prompt \in {"Initial", "Initial Generation"}
        /\ \A i \in 1..(Len(state.history) - 1) :
               state.history[i].prompt \notin {"Initial", "Initial Generation"}

\* C9: without reset and cancel, after a generation and n refinements the
\* history is [Rn, ..., R1, Initial], and the current image is Rn's unless a
\* history entry was selected afterwards.
C9_HistoryNewestFirst ==
    /\ []NewestFirst
    /\ [][SelectStep \/ (/\ (state'.history # state.history /\ state'.history # <<>>)
                               => state'.currentImage = Some(state'.history[1].imageUrl)
                         /\ state'.history = state.history
                               => state'.currentImage = state.currentImage)]_vars

\* C9 witness: a generation and two refinements, the current image the last
\* refinement's.
C9_Witness ==
    /\ Len(state.history) = 3
    /\ state.currentImage = Some(state.history[1].imageUrl)
    /\ state.history[1].imageUrl # state.history[2].imageUrl

\* C10: requestRefinement with an empty draft, without a current image or
\* without an analysis issues no gateway call and changes no state field.
C10_RefineNoOp ==
    [][((handleRefine \/ handleRefine_App)
        /\ (state.refinementInput = "" \/ state.currentImage = Null \/ state.analysis = Null))
        => UNCHANGED vars]_vars

\* C10 witness: the refinement input is shown with an empty draft, where Enter
\* invokes handleRefine, and nothing is loading.
C10_Witness ==
    /\ variant = "types"
    /\ ImagePanel /\ ~state.loading
    /\ state.refinementInput = ""
    /\ inflight = {}

\* The step indicator's answer for stage X in the mounted workflow.
canNavigate(X) == IF variant = "types" THEN canNavigateTo(X) ELSE canNavigateTo_App(X)

\* C11: while isLoading, canNavigate(X) is false for every stage X, SETUP
\* included, and navigateTo(X) leaves the stage unchanged.
C11_NoNavigationWhileLoading ==
    /\ [](state.loading => \A X \in AppStep : ~canNavigate(X))
    /\ [][\A X \in AppStep :
            (state.loading /\ (onNavigate(X) \/ handleStepClick(X)))
                => state'.step = state.step]_vars

\* C11 witness: a refinement is loading in the cancellable workflow while the
\* analysis, the image and the history are all present.
C11_Witness ==
    /\ variant = "types"
    /\ state.loading
    /\ state.step = REFINEMENT
    /\ state.analysis # Null /\ state.currentImage # Null /\ state.history # <<>>

\* C12: when isLoading is false, canNavigate of the cancellable workflow is:
\* SETUP always; UNDERSTANDING iff analysis is present; GENERATION iff
\* currentImage is present; REFINEMENT iff history is non-empty.
C12_CanNavigateWhenIdle ==
    (variant = "types" /\ ~state.loading) =>
        /\ canNavigateTo(SETUP)
        /\ canNavigateTo(UNDERSTANDING) <=> state.analysis # Null
        /\ canNavigateTo(GENERATION) <=> state.currentImage # Null
        /\ canNavigateTo(REFINEMENT) <=> state.history # <<>>

\* C12 witness: idle with an analysis and no image: UNDERSTANDING can be
\* visited, GENERATION and REFINEMENT cannot.
C12_Witness ==
    /\ variant = "types"
    /\ ~state.loading
    /\ state.analysis # Null /\ state.currentImage = Null /\ state.history = <<>>
    /\ canNavigateTo(UNDERSTANDING) /\ ~canNavigateTo(GENERATION)

\* C13: a successful requestGeneration (analysis present) sets the stage to
\* GENERATION, currentImage to the returned image and history to exactly one
\* entry with prompt "Initial" and that image, whatever history held before;
\* analysis, conference and refinementDraft are unchanged and isLoading ends
\* false.
C13_GenerationApplied ==
    [][\A x \in inflight : \A response \in ImageResponses :
        (/\ x.kind = "generate" /\ x.signal = "active"
         /\ inflight' = inflight \ {x}
         /\ state.analysis # Null
         /\ generateDiagram(response).ok
         /\ handleGenerate_resume(x, response))
            => /\ state'.step = GENERATION
               /\ state'.currentImage = generateDiagram(response).value
               /\ Len(state'.history) = 1
               /\ state'.history[1].prompt = "Initial"
               /\ Some(state'.history[1].imageUrl) = generateDiagram(response).value
               /\ state'.analysis = state.analysis
               /\ state'.conference = state.conference
               /\ state'.refinementInput = state.refinementInput
               /\ state'.loading = FALSE]_vars

\* C14: a successful requestRefinement prepends one HistoryItem whose prompt is
\* the refinementDraft at invocation and whose imageUrl is the returned image,
\* sets currentImage to that image, clears refinementDraft and sets the stage
\* to REFINEMENT; analysis is unchanged and isLoading ends false.
C14_RefinementApplied ==
    [][\A x \in inflight : \A response \in ImageResponses :
        (/\ x.kind = "refine" /\ x.signal = "active"
         /\ inflight' = inflight \ {x}
         /\ refineDiagram(response).ok
         /\ handleRefine_resume(x, response))
            => /\ state'.history # <<>>
               /\ Tail(state'.history) = state.history
               /\ state'.history[1].prompt = x.closure.refinementInput
               /\ Some(state'.history[1].imageUrl) = refineDiagram(response).value
               /\ state'.currentImage = refineDiagram(response).value
               /\ state'.refinementInput = ""
               /\ state'.step = REFINEMENT
               /\ state'.analysis = state.analysis
               /\ state'.loading = FALSE]_vars

\* C15: a successful submitDocument sets the stage to UNDERSTANDING and
\* analysis to the object the gateway returned, leaves currentImage, history,
\* refinementDraft and conference unchanged and ends with isLoading false and
\* lastError absent.
C15_AnalysisApplied ==
    [][\A x \in inflight : \A response \in AnalysisResponses :
        (/\ x.kind = "analyze" /\ x.signal = "active"
         /\ inflight' = inflight \ {x}
         /\ analyzePaper(response).ok
         /\ handleFileUpload_resume(x, response))
            => /\ state'.step = UNDERSTANDING
               /\ state'.analysis = analyzePaper(response).value
               /\ state'.currentImage = state.currentImage
               /\ state'.history = state.history
               /\ state'.refinementInput = state.refinementInput
               /\ state'.conference = state.conference
               /\ state'.loading = FALSE
               /\ state'.error = Null]_vars

\* C16: cancel() issued while isLoading sets isLoading to false and lastError
\* to a non-empty message, and leaves stage, analysis, currentImage, history,
\* refinementDraft and conference unchanged.
C16_CancelFrame ==
    [][(state.loading /\ handleStop)
        => /\ state'.loading = FALSE
           /\ state'.error # Null /\ state'.error[1] # ""
           /\ Data' = Data
           /\ state'.conference = state.conference]_vars

\* C16 witness: a generation was cancelled: nothing is loading, the stop
\* message is shown, the stage is still UNDERSTANDING and the exchange is
\* outstanding.
C16_Witness ==
    /\ variant = "types"
    /\ ~state.loading
    /\ state.error = Some("Operation stopped by user.")
    /\ state.step = UNDERSTANDING
    /\ \E x \in inflight : x.kind = "generate" /\ x.signal = "cancel"

\* C17: navigateTo(X) with canNavigate(X) true changes only the stage:
\* analysis, currentImage, history, refinementDraft, conference, isLoading and
\* lastError are unchanged, in the workflows of src/App.tsx and src/types.ts.
C17_NavigationFrame ==
    [][\A X \in AppStep :
        (canNavigate(X) /\ (onNavigate(X) \/ handleStepClick(X)))
            => /\ state'.analysis = state.analysis
               /\ state'.currentImage = state.currentImage
               /\ state'.history = state.history
               /\ state'.refinementInput = state.refinementInput
               /\ state'.conference = state.conference
               /\ state'.loading = state.loading
               /\ state'.error = state.error]_vars

\* C18: selectHistoryEntry on an entry of history, when not loading, sets
\* currentImage to that entry's imageUrl, leaves history, analysis,
\* refinementDraft and conference unchanged and ends in stage GENERATION or
\* REFINEMENT; while isLoading it has no effect.
C18_SelectHistoryEntry ==
    [][\A i \in 1..Len(state.history) :
        (selectHistory(i) \/ setCurrentImage_App(i) \/ selectHistory_P0(i))
            => IF state.loading
               THEN state' = state
               ELSE /\ state'.currentImage = Some(state.history[i].imageUrl)
                    /\ state'.history = state.history
                    /\ state'.analysis = state.analysis
                    /\ state'.refinementInput = state.refinementInput
                    /\ state'.conference = state.conference
                    /\ state'.step \in {GENERATION, REFINEMENT}]_vars

\* The fields of interface PaperAnalysis, all required.
RequiredFields == {"title", "summary", "layoutStrategy", "architectureBlueprint", "keyComponents"}

\* The backend answered, but without text, with text that is not JSON, or with
\* an object that lacks a required field.
Deficient(response) ==
    /\ ~response.rejected
    /\ \/ response.text = Null
       \/ ~response.text[1].wellFormed
       \/ ~(RequiredFields \subseteq DOMAIN response.text[1].value)

\* C19: if the analysis response is absent, malformed or lacks a required
\* field, submitDocument takes the failure path: analysis keeps its previous
\* value, the stage does not advance and lastError is set.
C19_DeficientAnalysisFails ==
    [][\A x \in inflight : \A response \in AnalysisResponses :
        (/\ x.kind = "analyze" /\ x.signal = "active"
         /\ inflight' = inflight \ {x}
         /\ Deficient(response)
         /\ handleFileUpload_resume(x, response))
            => /\ state'.analysis = state.analysis
               /\ state'.step = state.step
               /\ state'.error # Null]_vars

\* The part carries an inline image payload.
CarriesImage(part) == part.inlineData # Null /\ part.inlineData[1].data # ""

\* The parts of a response (none without candidates).
PartsOf(response) == IF response.candidates = Null THEN <<>> ELSE response.candidates[1]

\* The positions of the parts of a response that carry an image.
ImagePositions(response) ==
    {i \in 1..Len(PartsOf(response)) : CarriesImage(PartsOf(response)[i])}

\* The image reference built from the first part that carries an image.
FirstImage(response) ==
    LET first == CHOOSE i \in ImagePositions(response) :
                     \A j \in ImagePositions(response) : i <= j
    IN  DataUrl(PartsOf(response)[first].inlineData[1].data)

\* C20: generateDiagram and refineDiagram return the image reference built
\* from the first part that carries an inline image payload, and throw if and
\* only if no part of the response carries one.
C20_FirstInlineImage ==
    [][\A x \in inflight : \A response \in PartsResponses :
        (/\ x.kind \in {"generate", "refine"}
         /\ inflight' = inflight \ {x}
         /\ Resume(x, response))
            => /\ Result(x, response).ok <=> ImagePositions(response) # {}
               /\ Result(x, response).ok
                      => Result(x, response).value = Some(FirstImage(response))]_vars

\* Every entry of history s is an entry of history t.
Retains(s, t) == \A i \in 1..Len(s) : \E j \in 1..Len(t) : t[j] = s[i]

\* C21: between resets the session only accumulates: analysis and currentImage,
\* once present, stay present, and every HistoryItem that entered history
\* remains in it until reset() is issued.
C21_AccumulatesUntilReset ==
    [][~(onReset \/ reset)
        => /\ state.analysis # Null => state'.analysis # Null
           /\ state.currentImage # Null => state'.currentImage # Null
           /\ Retains(state.history, state'.history)]_vars

\* C23: the stage is REFINEMENT only where a refinement has succeeded since the
\* last successful generation (history holds at least two entries); with only
\* the Initial entry the stage is GENERATION.
C23_RefinementNeedsRefinement ==
    /\ state.step = REFINEMENT => Len(state.history) >= 2
    /\ (Len(state.history) = 1 /\ state.step \in {GENERATION, REFINEMENT})
           => state.step = GENERATION

\* C24: accepting an AI command sets isLoading and clears lastError, and in
\* every reachable state isLoading implies that lastError is absent.
C24_LoadingWithoutError ==
    /\ [](variant = "types" /\ state.loading => state.error = Null)
    /\ [][calls' # calls => state'.loading /\ state'.error = Null]_vars

\* C24 witness: a command was accepted after a failure whose message had not
\* been dismissed: it is loading, without error, after an earlier exchange.
C24_Witness ==
    /\ variant = "types"
    /\ state.loading /\ state.error = Null
    /\ calls = 2 /\ Cardinality(inflight) = 1
    /\ state.step = SETUP

\* The backend answers exchange id, and the handler's continuation runs.
Answers(id) ==
    \E x \in inflight : x.id = id /\ \E response \in Responses(x) : Resume(x, response)

\* The cancellable workflow with a backend that eventually answers each request.
Spec_Answered == Init /\ [][Next]_vars /\ \A id \in 1..MaxCalls : WF_vars(Answers(id))

\* The preconditions of the command of an exchange hold in session state s.
Preconditions(kind, s) ==
    IF kind = "analyze" THEN TRUE
    ELSE IF kind = "generate" THEN TruthyObject(s.analysis)
    ELSE RefineGuard(s)

\* The exchange of command id awaits its response.
Awaited(id) == \E x \in inflight : x.id = id

\* C25: every accepted AI command eventually ends with isLoading false, when
\* the backend answers each request or the user cancels; after a failure the
\* same command is enabled again (its preconditions hold and isLoading is
\* false) and no retry was issued.
C25_EndsAndRetriable ==
    /\ \A id \in 1..MaxCalls : Awaited(id) ~> (~Awaited(id) /\ ~state.loading)
    /\ [][\A x \in inflight : \A response \in Responses(x) :
            (/\ inflight' = inflight \ {x}
             /\ ~Result(x, response).ok
             /\ Resume(x, response))
                => /\ state'.loading = FALSE
                   /\ Preconditions(x.kind, state) => Preconditions(x.kind, state')
                   /\ abortControllerRef = x.id => Preconditions(x.kind, state')
                   /\ calls' = calls]_vars

\* C25 witness: a refinement failed: nothing is loading or awaited, the message
\* is shown, and the draft, the image and the analysis are still there.
C25_Witness ==
    /\ variant = "types"
    /\ ~state.loading /\ inflight = {}
    /\ state.error = Some("Failed to refine diagram.")
    /\ RefineGuard(state) /\ ImagePanel

\* C26: in the cancellable workflow, in every reachable state a present
\* currentImage implies a present analysis, also when a reset or cancel is
\* interleaved with an outstanding generate or refine response.
C26_ImageImpliesAnalysis ==
    variant = "types" /\ state.currentImage # Null => state.analysis # Null

\* C27: in every reachable state a present currentImage is the imageUrl of
\* some entry of history.
C27_ImageFromHistory ==
    state.currentImage # Null
        => \E i \in 1..Len(state.history) : state.currentImage = Some(state.history[i].imageUrl)

\* C27 witness: after two refinements with different images an older entry
\* was selected: the current image is not the newest entry's.
C27_Witness ==
    /\ variant = "types"
    /\ Len(state.history) = 3
    /\ state.currentImage # Null
    /\ state.currentImage # Some(state.history[1].imageUrl)

\* C28: in the cancellable workflow, from the acceptance of an AI command
\* until its own response, failure, cancel or reset, isLoading stays true and
\* its cancellation handle stays valid: no step that leaves the command's
\* exchange outstanding and unmarked ends the loading or replaces the handle.
C28_OwnExchangeKeepsLoading ==
    [][\A x \in inflight :
          (/\ variant = "types"
           /\ x.signal = "active"
           /\ abortControllerRef = x.id
           /\ state.loading
           /\ \E y \in inflight' : y.id = x.id /\ y.signal = "active")
             => /\ state'.loading
                /\ abortControllerRef' = x.id]_vars

\* C30: in the cancellable workflow, after cancel() the late failure of the
\* cancelled exchange is discarded: when it arrives lastError is not
\* replaced and no other field changes.
C30_CancelledFailureDiscarded ==
    [][\A x \in inflight : \A response \in Responses(x) :
          (/\ variant = "types"
           /\ x.signal = "cancel"
           /\ inflight' = inflight \ {x}
           /\ ~Result(x, response).ok
           /\ Resume(x, response))
             => state' = state]_vars

\* s is a suffix of t.
IsSuffix(s, t) == Len(s) <= Len(t) /\ SubSeq(t, Len(t) - Len(s) + 1, Len(t)) = s

\* The studio state is one the workflow reaches from its initial state.
StudioReached ==
    /\ \E b \in Blueprints : \E p \in Payloads : state = Studio(b, p)
    /\ abortControllerRef = 0 /\ inflight = {} /\ now = 1

\* C29: in the cancellable workflow, applying a successful refinement never
\* removes a history entry: the history before the application is a suffix of
\* the history after it, for every interleaving of cancel, new commands and
\* late responses.
C29_RefinementKeepsHistory ==
    [][\A x \in inflight : \A response \in ImageResponses :
          (/\ inflight' = inflight \ {x}
           /\ Applies(refineDiagram(response), abortControllerRef)
           /\ handleRefine_resume(x, response))
             => IsSuffix(state.history, state'.history)]_vars

\* The architectureBlueprint of a stored analysis.
BlueprintOf(analysis) == Field(analysis[1], "architectureBlueprint")

\* An image or history entry of the state is still in the state after the step.
ImageRemains ==
    \/ state.currentImage # Null /\ state'.currentImage = state.currentImage
    \/ \E i \in 1..Len(state.history) : \E j \in 1..Len(state'.history) :
          state'.history[j] = state.history[i]

\* C31: the current image and every history entry were produced from the
\* architectureBlueprint of the analysis currently stored: a step that stores
\* an analysis with another blueprint (a successful re-analysis) leaves no
\* image and no history entry of the previous analysis in the state.
C31_ImagesOfStoredBlueprint ==
    [][(/\ variant = "types"
        /\ state.analysis # Null /\ state'.analysis # Null
        /\ BlueprintOf(state'.analysis) # BlueprintOf(state.analysis))
          => ~ImageRemains]_vars

\* C32: in the workflow of src/App.tsx, reset() from any reachable state
\* restores the full default state, including isLoading = false, an empty
\* refinementDraft and the default conference (the state in which a new
\* submitDocument is accepted).
C32_ResetRestoresDefault_App ==
    [][reset => state' = InitialState]_vars

\* C33: in the workflow of src/App.tsx, a response that arrives after reset()
\* for a command issued before that reset does not change the state: the stage
\* stays SETUP and analysis, currentImage and history stay empty.  A generate
\* or refine exchange outstanding while no analysis is stored was issued
\* before a reset, since both commands need a stored analysis.
C33_LateResponseAfterReset_App ==
    [][\A x \in inflight :
          (/\ variant = "App"
           /\ x.kind \in {"generate", "refine"}
           /\ state.analysis = Null
           /\ inflight' = inflight \ {x})
             => /\ state'.step = SETUP
                /\ state'.analysis = Null
                /\ state'.currentImage = Null
                /\ state'.history = <<>>]_vars

\* C34: the two navigation guards agree: on every state reachable in either
\* workflow, canNavigateTo of src/App.tsx and canNavigateTo of src/types.ts
\* return the same value for every target stage.
C34_GuardsAgree ==
    \A targetStep \in AppStep : canNavigateTo_App(targetStep) = canNavigateTo(targetStep)

\* C34 witness: in the workflow of src/App.tsx an older history entry is
\* shown and nothing is loading: both guards admit REFINEMENT.
C34_Witness ==
    /\ variant = "App"
    /\ ~state.loading
    /\ Len(state.history) = 2
    /\ state.currentImage = Some(state.history[2].imageUrl)
    /\ state.currentImage # Some(state.history[1].imageUrl)
    /\ canNavigateTo_App(REFINEMENT) /\ canNavigateTo(REFINEMENT)

\* C35: in the workflow of src/unnamed/part_000, clicking a step changes the
\* stage only when navigation to the target is allowed: never while
\* isLoading, never to UNDERSTANDING without an analysis, and never to
\* GENERATION or REFINEMENT without a current image.
C35_GuardedNavigation_P0 ==
    [][\A target \in AppStep :
          (onNavigate_P0(target) /\ state'.step # state.step)
             => /\ ~state.loading
                /\ target = UNDERSTANDING => state.analysis # Null
                /\ target \in {GENERATION, REFINEMENT} => state.currentImage # Null]_vars
====
